---- MODULE Spec2Model ----
(***************************************************************************)
(* trip-analyzer: the streaming filter-and-histogram pipeline of           *)
(* src/main.rs (analyze), with the pieces of chrono and hdrhistogram that  *)
(* its calls rely on modelled by what they compute.                        *)
(***************************************************************************)
EXTENDS Integers, Sequences, FiniteSets, TLC

\* Rows read by one run of Spec.
MaxRows == 3
\* Rows of the input file of SpecPerm (the run and its shuffled twin).
MaxPermRows == 3

(***************************************************************************)
(* u64: a 64-bit pattern, bit k of weight 2^k.  Signed differences in the  *)
(* model stay below 2^31 in magnitude; their cast keeps all 64 bits.       *)
(***************************************************************************)
Pow2Table == [k \in 0..30 |-> 2 ^ k]

Pow2(k) == Pow2Table[k]

\* bit k of a natural number below 2^31
BitOf(n, k) == IF k <= 30 THEN (n \div Pow2(k)) % 2 ELSE 0

\* a cast that saturates: a negative x becomes 0
as_u64_saturating(n) == [k \in 0..63 |-> IF n >= 0 THEN BitOf(n, k) ELSE 0]

\* `x as u64` of an i64 x: two's complement, i.e. x mod 2^64
as_u64(n) ==
  [k \in 0..63 |-> IF n >= 0 THEN BitOf(n, k) ELSE 1 - BitOf(-n - 1, k)]

\* a < b on u64
u64_lt(a, b) ==
  \E k \in 0..63 : a[k] < b[k] /\ \A j \in (k + 1)..63 : a[j] = b[j]

\* u64::leading_zeros
leading_zeros(a) ==
  LET ones == {k \in 0..63 : a[k] = 1}
  IN  IF ones = {} THEN 64 ELSE 63 - (CHOOSE k \in ones : \A j \in ones : j <= k)

u64_or(a, b) == [k \in 0..63 |-> IF a[k] = 1 \/ b[k] = 1 THEN 1 ELSE 0]

u64_shr(a, s) == [k \in 0..63 |-> IF k + s <= 63 THEN a[k + s] ELSE 0]

RECURSIVE BitsValue(_, _)
BitsValue(a, k) == IF k < 0 THEN 0 ELSE a[k] * Pow2(k) + BitsValue(a, k - 1)

\* the number a u64 below 2^31 stands for
u64_value(a) == BitsValue(a, 30)

RECURSIVE SumOver(_, _)
SumOver(f, S) ==
  IF S = {} THEN 0
  ELSE LET x == CHOOSE y \in S : TRUE IN f[x] + SumOver(f, S \ {x})

SetMin(S) == CHOOSE x \in S : \A y \in S : x <= y

(***************************************************************************)
(* hdrhistogram::Histogram<u64> as DurationHistograms::new configures it:  *)
(* new_with_bounds(1, 3*60*60, 3), auto-resize off.  A histogram is        *)
(* [counts, total_count, min_non_zero_value, max_value]; counts is the     *)
(* counts array kept sparse (an index outside DOMAIN counts holds 0).      *)
(***************************************************************************)
lower_bound == 1
upper_bound == 3 * 60 * 60
sigfig == 3

RECURSIVE FloorLog2(_)
FloorLog2(n) == IF n <= 1 THEN 0 ELSE 1 + FloorLog2(n \div 2)

CeilLog2(n) == IF Pow2(FloorLog2(n)) = n THEN FloorLog2(n) ELSE FloorLog2(n) + 1

RECURSIVE Pow10(_)
Pow10(k) == IF k = 0 THEN 1 ELSE 10 * Pow10(k - 1)

unit_magnitude == FloorLog2(lower_bound)
sub_bucket_count_magnitude == CeilLog2(2 * Pow10(sigfig))
sub_bucket_half_count_magnitude == sub_bucket_count_magnitude - 1
sub_bucket_count == Pow2(sub_bucket_count_magnitude)
sub_bucket_half_count == sub_bucket_count \div 2
sub_bucket_mask == as_u64((sub_bucket_count - 1) * Pow2(unit_magnitude))
leading_zero_count_base == 64 - unit_magnitude - sub_bucket_count_magnitude

\* the smallest number of buckets whose range covers value
RECURSIVE buckets_loop(_, _, _)
buckets_loop(smallest_untrackable_value, buckets_needed, value) ==
  IF smallest_untrackable_value <= value
  THEN buckets_loop(2 * smallest_untrackable_value, buckets_needed + 1, value)
  ELSE buckets_needed

buckets_to_cover(value) ==
  buckets_loop(sub_bucket_count * Pow2(unit_magnitude), 1, value)

bucket_count == buckets_to_cover(upper_bound)

\* length of the counts array (resize(high) in new_with_bounds)
counts_len == (bucket_count + 1) * sub_bucket_half_count

\* stands for u64::MAX, the initial min_non_zero_value (all ones, -1 as i64)
u64_MAX == -1

Histogram_new ==
  [counts |-> <<>>, total_count |-> 0,
   min_non_zero_value |-> u64_MAX, max_value |-> 0]

\* value: u64
bucket_for(value) ==
  leading_zero_count_base - leading_zeros(u64_or(value, sub_bucket_mask))

sub_bucket_for(value, bucket_index) ==
  u64_value(u64_shr(value, bucket_index + unit_magnitude))

index_for(value) ==
  LET bucket_index == bucket_for(value)
      sub_bucket_index == sub_bucket_for(value, bucket_index)
      bucket_base_index == (bucket_index + 1) * Pow2(sub_bucket_half_count_magnitude)
      offset_in_bucket == sub_bucket_index - sub_bucket_half_count
  IN  bucket_base_index + offset_in_bucket

value_from_loc(bucket_index, sub_bucket_index) ==
  sub_bucket_index * Pow2(bucket_index + unit_magnitude)

\* index: a position of the counts array
value_for(index) ==
  LET bucket_index == (index \div Pow2(sub_bucket_half_count_magnitude)) - 1
      sub_bucket_index == (index % sub_bucket_half_count) + sub_bucket_half_count
  IN  IF bucket_index < 0
      THEN value_from_loc(0, sub_bucket_index - sub_bucket_half_count)
      ELSE value_from_loc(bucket_index, sub_bucket_index)

\* v: a recorded value as a number (below 2^31)
lowest_equivalent(v) ==
  LET bucket_index == bucket_for(as_u64(v))
  IN  value_from_loc(bucket_index, sub_bucket_for(as_u64(v), bucket_index))

equivalent_range(v) == Pow2(unit_magnitude + bucket_for(as_u64(v)))

highest_equivalent(v) == lowest_equivalent(v) + equivalent_range(v) - 1

count_at(h, index) == IF index \in DOMAIN h.counts THEN h.counts[index] ELSE 0

\* keeps the last value recorded instead of the extremes
update_min_max_last(h, v) ==
  [h EXCEPT !.max_value = v,
            !.min_non_zero_value = IF v # 0 THEN v ELSE @]

update_min_max(h, v) ==
  [h EXCEPT !.max_value = IF v > @ THEN v ELSE @,
            !.min_non_zero_value =
               IF v # 0 /\ (@ = u64_MAX \/ v < @) THEN v ELSE @]

\* Histogram::record(value), value: u64.  The value is counted iff its index
\* lies inside the counts array; otherwise ValueOutOfRangeResizeDisabled.
record(h, value) ==
  LET index == index_for(value) IN
  IF index >= counts_len
  THEN [ok |-> FALSE, hist |-> h]
  ELSE LET counted ==
             [h EXCEPT !.counts = (index :> (count_at(h, index) + 1)) @@ @,
                       !.total_count = @ + 1]
       IN  [ok |-> TRUE, hist |-> update_min_max(counted, u64_value(value))]

min_nz(h) ==
  IF h.min_non_zero_value = u64_MAX THEN u64_MAX
  ELSE lowest_equivalent(h.min_non_zero_value)

\* min without the test for an empty histogram
min_unguarded(h) == min_nz(h)

\* Histogram::min
min(h) == IF h.total_count = 0 \/ count_at(h, 0) # 0 THEN 0 ELSE min_nz(h)

\* ceil(quantile * total_count) for quantile = percent / 100
CeilCount(percent, total_count) == (percent * total_count + 99) \div 100

\* Histogram::value_at_quantile(percent / 100), percent in 1..100
value_at_quantile(h, percent) ==
  LET c == CeilCount(percent, h.total_count)
      count_at_quantile == IF c = 0 THEN 1 ELSE c
      reached == {i \in DOMAIN h.counts :
                    SumOver(h.counts, {j \in DOMAIN h.counts : j <= i})
                      >= count_at_quantile}
  IN  IF reached = {} THEN 0 ELSE highest_equivalent(value_for(SetMin(reached)))


(***************************************************************************)
(* chrono: NaiveDateTime.  A timestamp text is the tuple of the numbers it *)
(* spells, <<Y, M, D, h, m, s>> for "Y-M-D h:m:s"; a text the format does  *)
(* not match spells fewer fields or a field out of range.  A parsed DT is  *)
(* [date: days since 1970-01-01, secs: second of the day].  Seconds are    *)
(* drawn in 0..59 (no leap second 60 among the inputs).                    *)
(***************************************************************************)
is_leap_year(y) == (y % 4 = 0 /\ y % 100 # 0) \/ y % 400 = 0

days_in_month(y, m) ==
  IF m = 2 THEN (IF is_leap_year(y) THEN 29 ELSE 28)
  ELSE IF m \in {4, 6, 9, 11} THEN 30 ELSE 31

\* proleptic Gregorian day number of y-m-d, 1970-01-01 = 0 (y >= 1)
days_from_civil(y, m, d) ==
  LET yy  == IF m <= 2 THEN y - 1 ELSE y
      era == yy \div 400
      yoe == yy - era * 400
      mp  == IF m > 2 THEN m - 3 ELSE m + 9
      doy == (153 * mp + 2) \div 5 + d - 1
      doe == yoe * 365 + yoe \div 4 - yoe \div 100 + doy
  IN  era * 146097 + doe - 719468

\* DT::parse_from_str(s, "%Y-%m-%d %H:%M:%S")
parse_datetime(s) ==
  IF /\ Len(s) = 6
     /\ s[1] \in 1..9999
     /\ s[2] \in 1..12
     /\ s[3] \in 1..days_in_month(s[1], s[2])
     /\ s[4] \in 0..23
     /\ s[5] \in 0..59
     /\ s[6] \in 0..59
  THEN [ok |-> TRUE,
        dt |-> [date |-> days_from_civil(s[1], s[2], s[3]),
                secs |-> s[4] * 3600 + s[5] * 60 + s[6]]]
  ELSE [ok |-> FALSE, dt |-> [date |-> 0, secs |-> 0]]

\* Weekday::number_from_monday: Monday = 1 ... Sunday = 7
number_from_monday(dt) == ((dt.date + 3) % 7) + 1

\* Timelike::hour
hour_of(dt) == dt.secs \div 3600

\* (dropoff - pickup).num_seconds(), an i64
num_seconds(dropoff, pickup) ==
  (dropoff.date - pickup.date) * 86400 + (dropoff.secs - pickup.secs)

(***************************************************************************)
(* Filter predicates                                                       *)
(***************************************************************************)
locations == <<90, 100, 161, 162, 163, 164, 186, 230, 234>>

\* slice::binary_search(&x).is_ok() over arr[lo+1 .. hi]
RECURSIVE binary_search(_, _, _, _)
binary_search(arr, lo, hi, x) ==
  IF lo >= hi THEN FALSE
  ELSE LET mid == lo + (hi - lo) \div 2 IN
       IF arr[mid + 1] = x THEN TRUE
       ELSE IF arr[mid + 1] < x THEN binary_search(arr, mid + 1, hi, x)
       ELSE binary_search(arr, lo, mid, x)

is_in_middtown(loc) == binary_search(locations, 0, Len(locations), loc)

is_jfk_airport(loc) == loc = 132

\* Saturday taken for a weekday
is_weekday_le6(datetime) == number_from_monday(datetime) <= 6

is_weekday(datetime) == number_from_monday(datetime) <= 5

(***************************************************************************)
(* DurationHistograms, RecordCounts, DisplayStats                          *)
(***************************************************************************)
\* Vec index h is position h + 1
DurationHistograms_new == [h \in 1..24 |-> Histogram_new]

\* 20 * 60 as the u64 the duration is compared with
min_duration == as_u64(20 * 60)

\* records first and tests the lower limit afterwards
record_duration_late_check(hists, pickup, dropoff) ==
  LET duration == as_u64(num_seconds(dropoff, pickup))
      hour == hour_of(pickup)
      r == record(hists[hour + 1], duration)
      recorded == IF r.ok THEN [hists EXCEPT ![hour + 1] = r.hist] ELSE hists
  IN  IF u64_lt(duration, min_duration)
      THEN [ok |-> FALSE, msg |-> "too short", hist |-> recorded]
      ELSE IF r.ok THEN [ok |-> TRUE, msg |-> "", hist |-> recorded]
      ELSE [ok |-> FALSE, msg |-> "too long", hist |-> recorded]

\* returns [ok, msg, hist]: the result, the error's message, and the
\* histograms as the call leaves them (it works on &mut self)
record_duration(hists, pickup, dropoff) ==
  LET duration == as_u64(num_seconds(dropoff, pickup)) IN
  IF u64_lt(duration, min_duration)
  THEN [ok |-> FALSE, msg |-> "too short", hist |-> hists]
  ELSE LET hour == hour_of(pickup)
           r == record(hists[hour + 1], duration)
       IN  IF r.ok
           THEN [ok |-> TRUE, msg |-> "", hist |-> [hists EXCEPT ![hour + 1] = r.hist]]
           ELSE [ok |-> FALSE, msg |-> "too long", hist |-> hists]

RecordCounts_default == [read |-> 0, matched |-> 0, skipped |-> 0]

\* an f64 of minutes, seconds / 60.0, kept as the exact quotient <<seconds, 60>>
minutes(seconds) == <<seconds, 60>>

StatsEntry(idx, h) ==
  [hour_of_day |-> idx,
   minimum |-> minutes(min(h)),
   median |-> minutes(value_at_quantile(h, 50)),
   p95 |-> minutes(value_at_quantile(h, 95))]

DisplayStats_new(record_counts, histograms) ==
  [record_counts |-> record_counts,
   stats |-> [k \in 1..Len(histograms) |-> StatsEntry(k - 1, histograms[k])]]

(***************************************************************************)
(* analyze.  A run is [i, row, rec_counts, hist, pc, error, warnings,      *)
(* json]: i rows taken from the reader so far, row the last one taken      *)
(* (<<>> before the first), pc running | done | error, error the fatal     *)
(* error returned (<<>> if none), warnings the WARN lines written, json    *)
(* the document returned (<<>> if none).                                   *)
(***************************************************************************)
\* a row of the file: the four columns as text; a location is the number
\* its text spells
Row(pu, do, pl, dl) ==
  [pickup_datetime |-> pu, dropoff_datetime |-> do,
   PULocationID |-> pl, DOLocationID |-> dl]

\* LocId = u16
LocId == 0..65535

\* serde: the row as a Trip, or a decode error
deserialize(r) ==
  IF r.PULocationID \in LocId /\ r.DOLocationID \in LocId
  THEN [ok |-> TRUE,
        trip |-> [pickup_datetime |-> r.pickup_datetime,
                  dropoff_datetime |-> r.dropoff_datetime,
                  pickup_loc |-> r.PULocationID,
                  dropoff_loc |-> r.DOLocationID]]
  ELSE [ok |-> FALSE, trip |-> <<>>]

Run_new ==
  [i |-> 0, row |-> <<>>, rec_counts |-> RecordCounts_default,
   hist |-> DurationHistograms_new, pc |-> "running", error |-> <<>>,
   warnings |-> <<>>, json |-> <<>>]

Fatal(run, kind) == [run EXCEPT !.pc = "error", !.error = <<kind>>]

\* rec_counts.read += 1
count_read(run) == [run EXCEPT !.rec_counts.read = @ + 1]

count_matched_forgotten(run) == run

\* rec_counts.matched += 1
count_matched(run) == [run EXCEPT !.rec_counts.matched = @ + 1]

skip_row_uncounted(run, line, msg) ==
  [run EXCEPT !.warnings = Append(@, [line |-> line, msg |-> msg])]

\* the unwrap_or_else closure: the WARN line, rec_counts.skipped += 1
skip_row(run, line, msg) ==
  [run EXCEPT !.warnings = Append(@, [line |-> line, msg |-> msg]),
              !.rec_counts.skipped = @ + 1]

\* analyze_row with both timestamps parsed before the location checks
analyze_row_parse_first(run, r) ==
  LET taken == [run EXCEPT !.i = @ + 1, !.row = <<r>>]
      result == deserialize(r)
  IN
  IF ~result.ok THEN Fatal(taken, "DecodeError")
  ELSE
  LET trip == result.trip
      counted == count_read(taken)
      pickup == parse_datetime(trip.pickup_datetime)
      dropoff == parse_datetime(trip.dropoff_datetime)
  IN
  IF ~pickup.ok \/ ~dropoff.ok THEN Fatal(counted, "ParseError")
  ELSE IF /\ is_jfk_airport(trip.dropoff_loc)
          /\ is_in_middtown(trip.pickup_loc)
          /\ is_weekday(pickup.dt)
  THEN LET matched == count_matched(counted)
           rd == record_duration(matched.hist, pickup.dt, dropoff.dt)
           after == [matched EXCEPT !.hist = rd.hist]
       IN  IF rd.ok THEN after ELSE skip_row(after, run.i + 2, rd.msg)
  ELSE counted

\* one iteration of the for loop of analyze on row r
analyze_row(run, r) ==
  LET taken == [run EXCEPT !.i = @ + 1, !.row = <<r>>]
      result == deserialize(r)
  IN
  IF ~result.ok THEN Fatal(taken, "DecodeError")
  ELSE
  LET trip == result.trip
      counted == count_read(taken)
  IN
  IF is_jfk_airport(trip.dropoff_loc) /\ is_in_middtown(trip.pickup_loc)
  THEN LET pickup == parse_datetime(trip.pickup_datetime) IN
       IF ~pickup.ok THEN Fatal(counted, "ParseError")
       ELSE IF is_weekday(pickup.dt)
       THEN LET matched == count_matched(counted)
                dropoff == parse_datetime(trip.dropoff_datetime)
            IN  IF ~dropoff.ok THEN Fatal(matched, "ParseError")
                ELSE LET rd == record_duration(matched.hist, pickup.dt, dropoff.dt)
                         after == [matched EXCEPT !.hist = rd.hist]
                     IN  IF rd.ok THEN after
                         ELSE skip_row(after, run.i + 2, rd.msg)
       ELSE counted
  ELSE counted

\* after the loop: DisplayStats::new and the JSON document
analyze_end(run) ==
  [run EXCEPT !.pc = "done",
              !.json = <<DisplayStats_new(run.rec_counts, run.hist)>>]


(***************************************************************************)
(* Inputs.  2020-01-06 is a Monday (spec S1), 2020-01-04 a Saturday (S3).  *)
(***************************************************************************)
Mon0800 == <<2020, 1, 6, 8, 0, 0>>
Sat0800 == <<2020, 1, 4, 8, 0, 0>>
DateOnly == <<2020, 1, 6>>
Month13 == <<2020, 13, 6, 8, 30, 0>>

\* a Monday 08:00:00 pickup, 161 -> 132, dropped off at h:m:s the same day
MonTrip(h, m, s) == Row(Mon0800, <<2020, 1, 6, h, m, s>>, 161, 132)

RowPool ==
  { MonTrip(8, 30, 0),                                        \* 1800 s
    MonTrip(8, 10, 0),                                        \* 600 s
    MonTrip(8, 19, 59),                                       \* 1199 s
    MonTrip(8, 20, 0),                                        \* 1200 s
    MonTrip(11, 0, 0),                                        \* 10800 s
    MonTrip(11, 0, 1),                                        \* 10801 s
    MonTrip(12, 0, 0),                                        \* 14400 s
    MonTrip(12, 33, 3),                                       \* 16383 s
    MonTrip(12, 33, 4),                                       \* 16384 s
    MonTrip(7, 30, 0),                                        \* -1800 s
    Row(Mon0800, <<2020, 1, 6, 8, 30, 0>>, 100, 200),         \* not to JFK
    Row(Mon0800, <<2020, 1, 6, 8, 30, 0>>, 91, 132),          \* not from midtown
    Row(Sat0800, <<2020, 1, 4, 8, 30, 0>>, 161, 132),         \* Saturday
    Row(<<2020, 1, 5, 9, 0, 0>>, <<2020, 1, 5, 9, 30, 0>>, 234, 132),   \* Sunday
    Row(<<2020, 1, 10, 23, 50, 0>>, <<2020, 1, 11, 0, 20, 0>>, 90, 132), \* Friday, 1800 s
    Row(<<2020, 1, 7, 0, 5, 0>>, <<2020, 1, 7, 0, 45, 1>>, 230, 132),   \* Tuesday, 2401 s
    Row(DateOnly, <<2020, 1, 6, 8, 30, 0>>, 161, 132),        \* bad pickup text
    Row(DateOnly, <<2020, 1, 6, 8, 30, 0>>, 161, 200),        \* the same, not to JFK
    Row(DateOnly, <<2020, 1, 6, 8, 30, 0>>, 91, 132),         \* the same, not from midtown
    Row(Mon0800, Month13, 161, 132),                          \* bad dropoff text
    Row(Sat0800, Month13, 161, 132),                          \* the same on a Saturday
    Row(Mon0800, <<2020, 1, 6, 8, 30, 0>>, 65697, 132) }      \* location not a u16

PermPool ==
  { MonTrip(8, 30, 0), MonTrip(8, 10, 0), MonTrip(11, 0, 0),
    Row(<<2020, 1, 10, 23, 50, 0>>, <<2020, 1, 11, 0, 20, 0>>, 90, 132),
    Row(Mon0800, Month13, 161, 132) }

(***************************************************************************)
(* State: the run of analyze (i .. json), and for SpecPerm the input file, *)
(* the run over the shuffled file, and the rows that run has yet to read.  *)
(***************************************************************************)
VARIABLES i, row, rec_counts, hist, pc, error, warnings, json,
          input, left, shuffled

vars == <<i, row, rec_counts, hist, pc, error, warnings, json,
          input, left, shuffled>>

Cur ==
  [i |-> i, row |-> row, rec_counts |-> rec_counts, hist |-> hist, pc |-> pc,
   error |-> error, warnings |-> warnings, json |-> json]

Becomes(run) ==
  /\ i' = run.i
  /\ row' = run.row
  /\ rec_counts' = run.rec_counts
  /\ hist' = run.hist
  /\ pc' = run.pc
  /\ error' = run.error
  /\ warnings' = run.warnings
  /\ json' = run.json

Init ==
  /\ i = Run_new.i
  /\ row = Run_new.row
  /\ rec_counts = Run_new.rec_counts
  /\ hist = Run_new.hist
  /\ pc = Run_new.pc
  /\ error = Run_new.error
  /\ warnings = Run_new.warnings
  /\ json = Run_new.json
  /\ input = <<>>
  /\ left = {}
  /\ shuffled = Run_new

\* the reader yields one more row
ReadRow ==
  /\ pc = "running"
  /\ i < MaxRows
  /\ \E r \in RowPool : Becomes(analyze_row(Cur, r))
  /\ UNCHANGED <<input, left, shuffled>>

\* the reader is exhausted
EndOfInput ==
  /\ pc = "running"
  /\ Becomes(analyze_end(Cur))
  /\ UNCHANGED <<input, left, shuffled>>

Next == ReadRow \/ EndOfInput

Spec == Init /\ [][Next]_vars


(***************************************************************************)
(* SpecPerm: the same file read in two orders.  input is the file; the     *)
(* run i .. json reads it top to bottom, the run shuffled reads the same   *)
(* rows in any other order (left: the positions it has not read yet).      *)
(* Both runs take one step of analyze at a time.                           *)
(***************************************************************************)
RowSeqs(n) == UNION {[1..m -> PermPool] : m \in 0..n}

InitPerm ==
  /\ i = Run_new.i
  /\ row = Run_new.row
  /\ rec_counts = Run_new.rec_counts
  /\ hist = Run_new.hist
  /\ pc = Run_new.pc
  /\ error = Run_new.error
  /\ warnings = Run_new.warnings
  /\ json = Run_new.json
  /\ input \in RowSeqs(MaxPermRows)
  /\ left = 1..Len(input)
  /\ shuffled = Run_new

PermStep ==
  /\ pc = "running" \/ shuffled.pc = "running"
  /\ Becomes(IF pc # "running" THEN Cur
             ELSE IF i < Len(input) THEN analyze_row(Cur, input[i + 1])
             ELSE analyze_end(Cur))
  /\ IF shuffled.pc = "running" /\ left # {}
     THEN \E k \in left :
            /\ shuffled' = analyze_row(shuffled, input[k])
            /\ left' = left \ {k}
     ELSE /\ shuffled' = IF shuffled.pc = "running"
                         THEN analyze_end(shuffled) ELSE shuffled
          /\ left' = left
  /\ UNCHANGED input

NextPerm == PermStep

SpecPerm == InitPerm /\ [][NextPerm]_vars


(***************************************************************************)
(* What the specification says of a row, stated without the code's own     *)
(* predicates: the corridor as a set, the calendar as a table of the dates *)
(* the inputs use, a malformed text by name.                               *)
(***************************************************************************)
Midtown == {90, 100, 161, 162, 163, 164, 186, 230, 234}

Decodes(r) == r.PULocationID \in 0..65535 /\ r.DOLocationID \in 0..65535

InCorridor(r) == r.DOLocationID = 132 /\ r.PULocationID \in Midtown

Malformed(text) == text \in {DateOnly, Month13}

\* January 2020: the 4th a Saturday, the 5th a Sunday, the 6th a Monday,
\* the 7th a Tuesday, the 10th a Friday, the 11th a Saturday
DayName(text) ==
  CASE text[3] = 4 -> "Sat" [] text[3] = 5 -> "Sun" [] text[3] = 6 -> "Mon"
    [] text[3] = 7 -> "Tue" [] text[3] = 10 -> "Fri" [] text[3] = 11 -> "Sat"

MondayToFriday(text) ==
  ~Malformed(text) /\ DayName(text) \in {"Mon", "Tue", "Wed", "Thu", "Fri"}

FilterAccepts(r) == InCorridor(r) /\ MondayToFriday(r.pickup_datetime)

\* text a spells an earlier instant than text b (both well formed)
Earlier(a, b) ==
  \E k \in 1..6 : a[k] < b[k] /\ \A j \in 1..(k - 1) : a[j] = b[j]

\* a step of the run that takes one row from the reader
TakesRow == pc = "running" /\ i' = i + 1

Observations(hists) ==
  SumOver([k \in 1..Len(hists) |-> SumOver(hists[k].counts, DOMAIN hists[k].counts)],
          1..Len(hists))

TotalCounts(hists) ==
  SumOver([k \in 1..Len(hists) |-> hists[k].total_count], 1..Len(hists))

InRange(seconds) == 1200 <= seconds /\ seconds <= 10800

(***************************************************************************)
(* Claims                                                                  *)
(***************************************************************************)

\* C1: in every reachable state, and in the record_counts of the JSON
\* document, skipped <= matched <= read.
C1_CounterOrder ==
  /\ rec_counts.skipped <= rec_counts.matched
  /\ rec_counts.matched <= rec_counts.read
  /\ json # <<>> =>
       /\ json[1].record_counts.skipped <= json[1].record_counts.matched
       /\ json[1].record_counts.matched <= json[1].record_counts.read

\* a finished run with a skipped row, a recorded row and a filtered-out row
C1_Witness ==
  /\ pc = "done"
  /\ rec_counts.skipped >= 1
  /\ rec_counts.matched > rec_counts.skipped
  /\ rec_counts.read > rec_counts.matched

\* C2: after every row processed without a fatal error, and at finalization,
\* the observations held by the 24 histograms number matched - skipped.
C2_ObservationCount ==
  pc # "error" =>
    /\ Observations(hist) = rec_counts.matched - rec_counts.skipped
    /\ TotalCounts(hist) = rec_counts.matched - rec_counts.skipped

\* a finished run with two recorded rows and a skipped one
C2_Witness ==
  /\ pc = "done"
  /\ rec_counts.skipped >= 1
  /\ rec_counts.matched - rec_counts.skipped >= 2

\* C3 (as claimed): a duration is recorded iff it lies in [1200, 10800], so
\* no histogram ever holds an observation outside [1200, 10800].
C3_OnlyValidDurations ==
  \A k \in 1..24 :
    hist[k].total_count > 0 =>
      InRange(hist[k].min_non_zero_value) /\ InRange(hist[k].max_value)

\* C4: when record_duration fails for a matched row, all 24 histograms are
\* left as they were, skipped grows by exactly one, matched and read keep
\* the increments made for the row, one warning is written and the run goes
\* on (no fatal error, no document yet).
C4_RowLevelFailure ==
  [][ ( /\ TakesRow
        /\ Decodes(row'[1])
        /\ FilterAccepts(row'[1])
        /\ ~Malformed(row'[1].dropoff_datetime)
        /\ ~record_duration(hist, parse_datetime(row'[1].pickup_datetime).dt,
                            parse_datetime(row'[1].dropoff_datetime).dt).ok )
      => ( /\ hist' = hist
           /\ rec_counts' = [read |-> rec_counts.read + 1,
                             matched |-> rec_counts.matched + 1,
                             skipped |-> rec_counts.skipped + 1]
           /\ Len(warnings') = Len(warnings) + 1
           /\ pc' = "running"
           /\ error' = <<>>
           /\ json' = <<>> ) ]_vars

\* the run goes on after a too-short and a too-long row, one row recorded
C4_Witness ==
  /\ pc = "running"
  /\ Len(warnings) = 2
  /\ {warnings[1].msg, warnings[2].msg} = {"too short", "too long"}
  /\ rec_counts.skipped = 2
  /\ Observations(hist) = 1

\* C5: a decoded row aborts the run exactly when it is in the corridor and
\* its pickup text is malformed, or it also has a Monday-to-Friday pickup
\* (matched already incremented) and its dropoff text is malformed; the
\* abort is a ParseError and leaves no JSON document; a row outside the
\* corridor never aborts the run whatever its timestamp texts are.
C5_ParseFailureFatal ==
  /\ [](pc = "error" => json = <<>>)
  /\ [][ (TakesRow /\ Decodes(row'[1])) =>
         LET r == row'[1] IN
         /\ (pc' = "error") <=>
              /\ InCorridor(r)
              /\ \/ Malformed(r.pickup_datetime)
                 \/ /\ MondayToFriday(r.pickup_datetime)
                    /\ Malformed(r.dropoff_datetime)
         /\ pc' = "error" =>
              /\ error' = <<"ParseError">>
              /\ json' = <<>>
              /\ rec_counts'.read = rec_counts.read + 1
              /\ rec_counts'.matched =
                   rec_counts.matched +
                     (IF Malformed(r.pickup_datetime) THEN 0 ELSE 1)
         /\ ~InCorridor(r) => pc' = "running" ]_vars

\* the run aborted on a matched row with a malformed dropoff, after another row
C5_Witness ==
  /\ pc = "error"
  /\ error = <<"ParseError">>
  /\ i >= 2
  /\ row = <<Row(Mon0800, Month13, 161, 132)>>
  /\ rec_counts.matched >= 1
  /\ json = <<>>

\* C6: for every decoded row, matched is incremented iff the dropoff is 132,
\* the pickup location is in the midtown set and the pickup date is Monday
\* to Friday; a Saturday or Sunday pickup in the corridor only increments
\* read.
C6_CompoundFilter ==
  [][ (TakesRow /\ Decodes(row'[1])) =>
      LET r == row'[1] IN
      /\ rec_counts'.read = rec_counts.read + 1
      /\ rec_counts'.matched =
           rec_counts.matched + (IF FilterAccepts(r) THEN 1 ELSE 0)
      /\ ( /\ InCorridor(r)
           /\ ~Malformed(r.pickup_datetime)
           /\ DayName(r.pickup_datetime) \in {"Sat", "Sun"} )
         => /\ hist' = hist
            /\ rec_counts'.skipped = rec_counts.skipped
            /\ warnings' = warnings
            /\ pc' = "running" ]_vars

\* a Saturday row of the corridor was just filtered out, after a matched row
C6_Witness ==
  /\ pc = "running"
  /\ row = <<Row(Sat0800, <<2020, 1, 4, 8, 30, 0>>, 161, 132)>>
  /\ rec_counts = [read |-> 2, matched |-> 1, skipped |-> 0]
  /\ Observations(hist) = 1

\* C7: the run over the file and the run over its shuffled rows end alike:
\* both abort or both return a document, and then with the same
\* record_counts, the same 24 histograms and the same JSON document.
C7_OrderIndependent ==
  (pc # "running" /\ shuffled.pc # "running") =>
    /\ shuffled.pc = pc
    /\ pc = "done" =>
         /\ shuffled.rec_counts = rec_counts
         /\ shuffled.hist = hist
         /\ shuffled.json = json

\* both runs finished, the rows read in different orders, two rows recorded
\* in one histogram and one skipped
C7_Witness ==
  /\ pc = "done"
  /\ shuffled.pc = "done"
  /\ shuffled.row # row
  /\ \E k \in 1..24 : hist[k].total_count >= 2 /\ hist[k].max_value > hist[k].min_non_zero_value
  /\ rec_counts.skipped >= 1

\* C8: a JSON document has exactly 24 stats entries, hour_of_day 0..23 in
\* ascending order, and an hour without observations has minimum, median
\* and p95 all 0.
C8_TwentyFourEntries ==
  json # <<>> =>
    LET stats == json[1].stats IN
    /\ Len(stats) = 24
    /\ \A k \in 1..Len(stats) : stats[k].hour_of_day = k - 1
    /\ \A k \in 1..Len(stats) :
         DOMAIN hist[k].counts = {} =>
           /\ stats[k].minimum = minutes(0)
           /\ stats[k].median = minutes(0)
           /\ stats[k].p95 = minutes(0)

\* a document with an empty hour 0 and observations in hour 8
C8_Witness ==
  /\ json # <<>>
  /\ DOMAIN hist[1].counts = {}
  /\ hist[9].total_count >= 1
  /\ json[1].stats[1].minimum = minutes(0)

\* C9 (as claimed): in a JSON document, every hour with observations has
\* its minimum, median and p95 readings in [1200, 10800] seconds.
C9_ReadingsInRange ==
  json # <<>> =>
    \A k \in 1..24 :
      hist[k].total_count > 0 =>
        /\ InRange(json[1].stats[k].minimum[1])
        /\ InRange(json[1].stats[k].median[1])
        /\ InRange(json[1].stats[k].p95[1])

\* C10: a matched row whose dropoff is earlier than its pickup is rejected
\* by the histogram as too long (not as too short), counted in skipped and
\* recorded in no histogram.
C10_NegativeDurationWraps ==
  [][ ( /\ TakesRow
        /\ Decodes(row'[1])
        /\ FilterAccepts(row'[1])
        /\ ~Malformed(row'[1].dropoff_datetime)
        /\ Earlier(row'[1].dropoff_datetime, row'[1].pickup_datetime) )
      => ( /\ hist' = hist
           /\ rec_counts'.skipped = rec_counts.skipped + 1
           /\ rec_counts'.matched = rec_counts.matched + 1
           /\ warnings' = Append(warnings, [line |-> i + 2, msg |-> "too long"])
           /\ pc' = "running" ) ]_vars

\* the row dropped off half an hour before its pickup was just skipped
C10_Witness ==
  /\ row = <<MonTrip(7, 30, 0)>>
  /\ warnings # <<>>
  /\ warnings[Len(warnings)] = [line |-> i + 1, msg |-> "too long"]
  /\ rec_counts.skipped >= 1
  /\ Observations(hist) = rec_counts.matched - rec_counts.skipped


====
